---- MODULE Spec2Model ----
(***************************************************************************)
(* Model of scripts/convert_catalog.py: the one-shot conversion of the     *)
(* LiteLLM price list into the gateway catalog.                            *)
(*                                                                         *)
(* Encodings used throughout:                                              *)
(*  - an optional value (Python None / missing dict key / JSON null) is a  *)
(*    sequence of length 0 or 1: None == <<>>, Some(x) == <<x>>;           *)
(*  - a string on which the code does prefix arithmetic (source key,       *)
(*    provider tag, model id, catalog key) is the sequence of its          *)
(*    "/"-separated atoms with the "/" kept as atoms of their own, so      *)
(*    "gpt-4/foo" is <<"gpt-4", "/", "foo">> and "" is <<>>.  Because      *)
(*    every prefix the code tests ends in "/", str.startswith and slicing  *)
(*    on characters coincide with prefix tests and SubSeq on atoms;        *)
(*  - a number is a decimal [m |-> mantissa, e |-> exponent] standing for  *)
(*    m * 10^e, kept normalised (no trailing zero in m, zero is m=0,e=0).  *)
(*    Python floats are idealised as exact decimals; round() is            *)
(*    round-half-even on that decimal.                                     *)
(***************************************************************************)
EXTENDS Integers, Sequences, FiniteSets, TLC

VARIABLES raw, i, catalog, counters, pc, dstFile, backupFile

vars == <<raw, i, catalog, counters, pc, dstFile, backupFile>>

\* Longest source mapping explored by Spec.
MaxEntries == 3

(* Optional values *)

None == <<>>

Some(x) == <<x>>

IsNone(o) == Len(o) = 0

Val(o) == o[1]

(* Decimal numbers *)

RECURSIVE Pow10(_)
Pow10(k) == IF k = 0 THEN 1 ELSE 10 * Pow10(k - 1)

RECURSIVE DecNorm(_)
DecNorm(d) ==
    IF d.m = 0 THEN [m |-> 0, e |-> 0]
    ELSE IF d.m % 10 = 0 THEN DecNorm([m |-> d.m \div 10, e |-> d.e + 1])
    ELSE d

Dec(m, e) == DecNorm([m |-> m, e |-> e])

Zero == Dec(0, 0)

\* d * 10^k
DecShift(d, k) == DecNorm([m |-> d.m, e |-> d.e + k])

\* d * n for a natural n >= 1; powers of ten in n only move the exponent
RECURSIVE DecMul(_, _)
DecMul(d, n) ==
    IF n % 10 = 0 THEN DecMul(DecShift(d, 1), n \div 10)
    ELSE DecNorm([m |-> d.m * n, e |-> d.e])

\* Python round(d, ndigits): nearest multiple of 10^-ndigits, ties to even.
\* A mantissa below 2^31 shifted right by ten or more digits rounds to zero.
DecRound(d, ndigits) ==
    IF d.e >= -ndigits THEN d
    ELSE LET k == (-ndigits) - d.e IN
         IF k > 9 THEN Zero
         ELSE LET p == Pow10(k)
                  q == d.m \div p
                  r == d.m % p
                  up == (2 * r > p) \/ (2 * r = p /\ q % 2 = 1)
              IN  DecNorm([m |-> IF up THEN q + 1 ELSE q, e |-> -ndigits])

\* Python truthiness of an optional number: None and 0 are falsy.
TruthyNum(o) == ~IsNone(o) /\ Val(o) # Zero

\* Python truthiness of an optional boolean flag.
TruthyFlag(o) == ~IsNone(o) /\ Val(o) = TRUE

\* Python truthiness of an optional string.
TruthyStr(o) == ~IsNone(o) /\ Val(o) # <<>>

(* Strings as atom sequences *)

Slash == <<"/">>

StartsWith(s, prefix) ==
    /\ Len(prefix) <= Len(s)
    /\ SubSeq(s, 1, Len(prefix)) = prefix

\* s[n:] for n <= len(s)
DropPrefix(s, n) == SubSeq(s, n + 1, Len(s))

(* Module-level tables, lines 23-78 *)

\* MODE_MAP as a set of <<LiteLLM mode, gateway mode>> pairs.
MODE_MAP ==
    { <<"chat", "chat">>,
      <<"completion", "chat">>,
      <<"embedding", "embedding">>,
      <<"image_generation", "image">>,
      <<"audio_transcription", "audio_in">>,
      <<"audio_speech", "audio_out">> }

\* Mutant: the skip set lacks "search".
SKIP_MODES_NoSearch == {"moderation", "rerank"}

SKIP_MODES == {"moderation", "rerank", "search"}

\* PROVIDER_ALIASES as a set of <<LiteLLM provider, canonical provider>> pairs.
\* No alias contains "/", so each side is a single atom.
PROVIDER_ALIASES ==
    { <<"text-completion-openai", "openai">>,
      <<"chatgpt", "openai">>,
      <<"openai_like", "openai">>,
      <<"openai_compatible", "openai">>,
      <<"cohere_chat", "cohere">>,
      <<"codestral", "mistral">>,
      <<"text-completion-codestral", "mistral">>,
      <<"mistral_azure", "azure">>,
      <<"together_ai", "together">>,
      <<"fireworks_ai", "fireworks">>,
      <<"fireworks_ai-embedding-models", "fireworks">>,
      <<"bedrock_converse", "bedrock">>,
      <<"bedrock_converse_passthrough", "bedrock">>,
      <<"sagemaker_chat", "sagemaker">>,
      <<"sagemaker_meta", "sagemaker">>,
      <<"vertex_ai_beta", "vertex_ai">>,
      <<"vertex_ai-anthropic_models", "vertex_ai">>,
      <<"vertex_ai-llama_models", "vertex_ai">>,
      <<"vertex_ai-mistral_models", "vertex_ai">>,
      <<"vertex_ai-image-models", "vertex_ai">>,
      <<"vertex_ai-embedding-models", "vertex_ai">>,
      <<"vertex_ai-vision-models", "vertex_ai">>,
      <<"vertex_ai-code-text-models", "vertex_ai">>,
      <<"vertex_ai-language-models", "vertex_ai">>,
      <<"vertex_ai-text-models", "vertex_ai">>,
      <<"vertex_ai-chat-models", "vertex_ai">>,
      <<"vertex_ai-code-chat-models", "vertex_ai">>,
      <<"azure_ai", "azure">>,
      <<"azure_text", "azure">>,
      <<"azure_openai", "azure">>,
      <<"eu.anthropic", "anthropic">>,
      <<"us.anthropic", "anthropic">>,
      <<"us.amazon", "bedrock">>,
      <<"eu.amazon", "bedrock">>,
      <<"ap.amazon", "bedrock">>,
      <<"us.meta", "bedrock">>,
      <<"eu.meta", "bedrock">>,
      <<"ollama_chat", "ollama">>,
      <<"ai21_chat", "ai21">> }

\* dict.get(key, default) on a table of pairs
Lookup(table, key, default) ==
    IF \E p \in table : p[1] = key
    THEN (CHOOSE p \in table : p[1] = key)[2]
    ELSE default

(* Pure functions, lines 81-96 *)

\* PROVIDER_ALIASES.get(litellm_provider, litellm_provider)
canonical_provider(litellm_provider) ==
    IF Len(litellm_provider) = 1
    THEN <<Lookup(PROVIDER_ALIASES, litellm_provider[1], litellm_provider[1])>>
    ELSE litellm_provider

\* Mutant: whatever precedes the first "/" is taken for a provider prefix.
derive_model_id_AnyPrefix(litellm_key, litellm_provider) ==
    IF Len(litellm_key) >= 2 /\ litellm_key[2] = "/"
    THEN DropPrefix(litellm_key, 2)
    ELSE litellm_key

\* Strip "<raw provider>/" or, failing that, "<canonical provider>/".
derive_model_id(litellm_key, litellm_provider) ==
    LET canon == canonical_provider(litellm_provider)
        p1 == litellm_provider \o Slash
        p2 == canon \o Slash
    IN  IF StartsWith(litellm_key, p1) THEN DropPrefix(litellm_key, Len(p1))
        ELSE IF StartsWith(litellm_key, p2) THEN DropPrefix(litellm_key, Len(p2))
        ELSE litellm_key

MILLION == 1000000

ROUND_DIGITS == 10

SECONDS_PER_MINUTE == 60

\* Mutant: "if not cost_per_token" instead of "is None": zero becomes None.
per_m_FalsyIsNone(cost_per_token) ==
    IF ~TruthyNum(cost_per_token) THEN None
    ELSE Some(DecRound(DecMul(Val(cost_per_token), MILLION), ROUND_DIGITS))

\* None stays None; otherwise round(cost * 1_000_000, 10)
per_m(cost_per_token) ==
    IF IsNone(cost_per_token) THEN None
    ELSE Some(DecRound(DecMul(Val(cost_per_token), MILLION), ROUND_DIGITS))

(* JSON scalars that int() is applied to: a number or a string *)

JNum(n) == [t |-> "num", n |-> n, s |-> ""]

JStr(s) == [t |-> "str", n |-> 0, s |-> s]

\* Python truthiness of an optional JSON scalar
TruthyJ(o) ==
    /\ ~IsNone(o)
    /\ IF Val(o).t = "num" THEN Val(o).n # 0 ELSE Val(o).s # ""

\* int(x or 0) raises ValueError on a non-empty string that is not a numeral;
\* the strings of this model ("n/a") are never numerals.
IntRaises(o) == TruthyJ(o) /\ Val(o).t = "str"

\* int(x or 0) when it does not raise
IntOr0(o) == IF TruthyJ(o) /\ Val(o).t = "num" THEN Val(o).n ELSE 0

(* convert_entry, lines 99-176 *)

\* The attribute mapping with every key missing.
EmptyV ==
    [ litellm_provider |-> None, mode |-> None,
      input_cost_per_token |-> None, output_cost_per_token |-> None,
      cache_read_input_token_cost |-> None,
      cache_creation_input_token_cost |-> None,
      input_cost_per_reasoning_token |-> None,
      output_cost_per_image |-> None,
      input_cost_per_second |-> None,
      input_cost_per_audio_per_second |-> None,
      output_cost_per_character |-> None,
      ft_input_cost_per_token |-> None, ft_output_cost_per_token |-> None,
      supports_vision |-> None, supports_audio_input |-> None,
      supports_audio_output |-> None, supports_function_calling |-> None,
      supports_parallel_function_calling |-> None,
      supports_response_schema |-> None, supports_prompt_caching |-> None,
      supports_reasoning |-> None,
      deprecation_date |-> None, display_name |-> None,
      max_input_tokens |-> None, max_output_tokens |-> None,
      source |-> None ]

\* Lines 118-122: the first present per-second field, times 60, rounded.
audio_in_per_min(v) ==
    IF ~IsNone(v.input_cost_per_second)
    THEN Some(DecRound(DecMul(Val(v.input_cost_per_second), SECONDS_PER_MINUTE),
                       ROUND_DIGITS))
    ELSE IF ~IsNone(v.input_cost_per_audio_per_second)
    THEN Some(DecRound(DecMul(Val(v.input_cost_per_audio_per_second),
                              SECONDS_PER_MINUTE), ROUND_DIGITS))
    ELSE None

\* Mutant: the embedding branch also fills the input rate.
embedding_pricing_KeepsInput(v) ==
    [ input_per_m_tokens |-> per_m(v.input_cost_per_token),
      output_per_m_tokens |-> None,
      cache_read_per_m_tokens |-> None, cache_write_per_m_tokens |-> None,
      reasoning_per_m_tokens |-> None, image_per_tile |-> None,
      audio_input_per_minute |-> None, audio_output_per_character |-> None,
      embedding_per_m_tokens |-> per_m(v.input_cost_per_token),
      finetune_train_per_m_tokens |-> None,
      finetune_input_per_m_tokens |-> None,
      finetune_output_per_m_tokens |-> None ]

\* Lines 107-116
embedding_pricing(v) ==
    [ input_per_m_tokens |-> None, output_per_m_tokens |-> None,
      cache_read_per_m_tokens |-> None, cache_write_per_m_tokens |-> None,
      reasoning_per_m_tokens |-> None, image_per_tile |-> None,
      audio_input_per_minute |-> None, audio_output_per_character |-> None,
      embedding_per_m_tokens |-> per_m(v.input_cost_per_token),
      finetune_train_per_m_tokens |-> None,
      finetune_input_per_m_tokens |-> None,
      finetune_output_per_m_tokens |-> None ]

\* Lines 124-137
general_pricing(v) ==
    [ input_per_m_tokens |-> per_m(v.input_cost_per_token),
      output_per_m_tokens |-> per_m(v.output_cost_per_token),
      cache_read_per_m_tokens |-> per_m(v.cache_read_input_token_cost),
      cache_write_per_m_tokens |-> per_m(v.cache_creation_input_token_cost),
      reasoning_per_m_tokens |-> per_m(v.input_cost_per_reasoning_token),
      image_per_tile |-> v.output_cost_per_image,
      audio_input_per_minute |-> audio_in_per_min(v),
      audio_output_per_character |-> v.output_cost_per_character,
      embedding_per_m_tokens |-> None,
      finetune_train_per_m_tokens |-> per_m(v.ft_input_cost_per_token),
      finetune_input_per_m_tokens |-> per_m(v.ft_input_cost_per_token),
      finetune_output_per_m_tokens |-> per_m(v.ft_output_cost_per_token) ]

\* Line 148: bool(supports_reasoning or input_cost_per_reasoning_token)
reasoning_cap(v) ==
    TruthyFlag(v.supports_reasoning) \/ TruthyNum(v.input_cost_per_reasoning_token)

\* Lines 139-151
caps(v) ==
    [ vision |-> TruthyFlag(v.supports_vision),
      audio_input |-> TruthyFlag(v.supports_audio_input),
      audio_output |-> TruthyFlag(v.supports_audio_output),
      function_calling |-> TruthyFlag(v.supports_function_calling),
      parallel_tool_calls |-> TruthyFlag(v.supports_parallel_function_calling),
      json_mode |-> TruthyFlag(v.supports_function_calling),
      response_schema |-> TruthyFlag(v.supports_response_schema),
      prompt_caching |-> TruthyFlag(v.supports_prompt_caching),
      reasoning |-> reasoning_cap(v),
      streaming |-> TRUE,
      finetuneable |-> TruthyNum(v.ft_input_cost_per_token)
                         \/ TruthyNum(v.ft_output_cost_per_token) ]

\* Lines 153-162
lifecycle(v) ==
    [ status |-> IF TruthyStr(v.deprecation_date) THEN "deprecated" ELSE "ga",
      deprecation_date |-> v.deprecation_date,
      sunset_date |-> None,
      successor |-> None ]

\* Line 101: convert_entry returns None
mode_skipped(v) == ~IsNone(v.mode) /\ Val(v.mode) \in SKIP_MODES

\* Line 103: MODE_MAP.get(raw_mode, "chat")
mode_of(v) ==
    IF IsNone(v.mode) THEN "chat" ELSE Lookup(MODE_MAP, Val(v.mode), "chat")

\* Lines 169-170: int() raises on a non-numeric limit (after the mode check)
convert_raises(v) ==
    /\ ~mode_skipped(v)
    /\ IntRaises(v.max_input_tokens) \/ IntRaises(v.max_output_tokens)

\* The result of convert_entry when it does not raise: None or Some(entry).
\* v.get("litellm_provider", "") is the provider string: main has already
\* rejected a missing or empty one.
convert_entry(litellm_key, v, provider) ==
    IF mode_skipped(v) THEN None
    ELSE LET mode == mode_of(v)
             model_id == derive_model_id(litellm_key, Val(v.litellm_provider))
         IN  Some([ provider |-> provider,
                    model_id |-> model_id,
                    display_name |-> IF TruthyStr(v.display_name)
                                     THEN Val(v.display_name) ELSE model_id,
                    mode |-> mode,
                    context_window |-> IntOr0(v.max_input_tokens),
                    max_output_tokens |-> IntOr0(v.max_output_tokens),
                    pricing |-> IF mode = "embedding" THEN embedding_pricing(v)
                                ELSE general_pricing(v),
                    capabilities |-> caps(v),
                    lifecycle |-> lifecycle(v),
                    source |-> IF TruthyStr(v.source) THEN Val(v.source) ELSE <<>>,
                    updated_at |-> "2026-02-28" ])

\* Lines 179-186
has_pricing(entry) ==
    LET p == entry.pricing IN
    \E k \in {"input_per_m_tokens", "output_per_m_tokens",
              "embedding_per_m_tokens", "image_per_tile",
              "audio_input_per_minute", "audio_output_per_character"} :
        ~IsNone(p[k])

(* Source mappings *)

\* A key/value pair of the parsed JSON object.  A value that is not a JSON
\* object (a number, a string, a list) carries no attributes.
Item(key, v) == [key |-> key, is_dict |-> TRUE, v |-> v]

NonDictItem(key) == [key |-> key, is_dict |-> FALSE, v |-> EmptyV]

SAMPLE_SPEC == <<"sample_spec">>

kFoo == <<"foo">>

kOpenaiFoo == <<"openai", "/", "foo">>

kChatgptFoo == <<"chatgpt", "/", "foo">>

kGpt4Foo == <<"gpt-4", "/", "foo">>

openai == Some(<<"openai">>)

chatgpt == Some(<<"chatgpt">>)

\* 0.00003 per token
Cost3e5 == Some(Dec(3, -5))

vChatPriced ==
    [EmptyV EXCEPT !.litellm_provider = openai, !.mode = Some("chat"),
                   !.input_cost_per_token = Cost3e5]

vUnpriced ==
    [EmptyV EXCEPT !.litellm_provider = openai, !.mode = Some("completion"),
                   !.supports_function_calling = Some(TRUE),
                   !.max_input_tokens = Some(JNum(4096))]

\* Only a cache-read price: the pricing record is not empty, but none of the
\* six fields has_pricing looks at is set.
vCacheOnly ==
    [EmptyV EXCEPT !.litellm_provider = chatgpt,
                   !.cache_read_input_token_cost = Cost3e5]

\* Priced at zero.
vZeroOutput ==
    [EmptyV EXCEPT !.litellm_provider = chatgpt, !.mode = Some("chat"),
                   !.output_cost_per_token = Some(Zero),
                   !.deprecation_date = Some(<<"2025-01-01">>)]

vEmbedding ==
    [EmptyV EXCEPT !.litellm_provider = chatgpt, !.mode = Some("embedding"),
                   !.input_cost_per_token = Cost3e5,
                   !.output_cost_per_token = Some(Zero)]

vRerank == [EmptyV EXCEPT !.litellm_provider = openai, !.mode = Some("rerank")]

vModeration ==
    [EmptyV EXCEPT !.litellm_provider = openai, !.mode = Some("moderation"),
                   !.max_input_tokens = Some(JStr("n/a"))]

vSearch ==
    [EmptyV EXCEPT !.litellm_provider = chatgpt, !.mode = Some("search"),
                   !.input_cost_per_token = Cost3e5]

\* No provider tag at all, and a mode of the skip set.
vNoProviderRerank == [EmptyV EXCEPT !.mode = Some("rerank")]

\* An empty provider tag.
vEmptyProvider ==
    [EmptyV EXCEPT !.litellm_provider = Some(<<>>), !.mode = Some("chat"),
                   !.input_cost_per_token = Cost3e5]

\* A token limit that is not a number.
vBadLimit ==
    [EmptyV EXCEPT !.litellm_provider = openai, !.mode = Some("chat"),
                   !.max_output_tokens = Some(JStr("n/a"))]

\* The key/value pairs source mappings are built from.
SourceItems ==
    { Item(SAMPLE_SPEC, vChatPriced), NonDictItem(SAMPLE_SPEC),
      NonDictItem(kFoo), Item(kFoo, vNoProviderRerank),
      Item(kFoo, vUnpriced), Item(kFoo, vEmbedding),
      Item(kOpenaiFoo, vEmptyProvider), Item(kOpenaiFoo, vChatPriced),
      Item(kOpenaiFoo, vCacheOnly), Item(kOpenaiFoo, vUnpriced),
      Item(kChatgptFoo, vZeroOutput), Item(kChatgptFoo, vCacheOnly),
      Item(kChatgptFoo, vRerank), Item(kChatgptFoo, vUnpriced),
      Item(kGpt4Foo, vChatPriced), Item(kGpt4Foo, vModeration),
      Item(kGpt4Foo, vSearch), Item(kGpt4Foo, vBadLimit) }

\* json.load yields a dict: keys are distinct, iteration is in file order.
\* All such mappings of at most n pairs, as sequences in iteration order.
RECURSIVE Mappings(_)
Mappings(n) ==
    IF n = 0 THEN {<<>>}
    ELSE LET shorter == Mappings(n - 1)
             longest == {s \in shorter : Len(s) = n - 1}
         IN  shorter \cup
             UNION { { Append(s, it) :
                         it \in {x \in SourceItems :
                                   \A j \in 1..Len(s) : s[j].key # x.key} } :
                     s \in longest }

(* Output files *)

Untouched == [state |-> "untouched", data |-> <<>>]

\* Opened for writing (truncated) and not completely written.
Partial == [state |-> "partial", data |-> <<>>]

Complete(c) == [state |-> "complete", data |-> c]

(* main, lines 189-244 *)

EmptyCatalog == <<>>

ZeroCounters ==
    [skipped_spec |-> 0, skipped_mode |-> 0, skipped_no_provider |-> 0,
     duplicates |-> 0, written |-> 0]

Init ==
    /\ raw = <<>>
    /\ i = 0
    /\ catalog = EmptyCatalog
    /\ counters = ZeroCounters
    /\ pc = "start"
    /\ dstFile = Untouched
    /\ backupFile = Untouched

\* Lines 196-201: the source file is opened and parsed.
ReadSource ==
    /\ pc = "start"
    /\ raw' \in Mappings(MaxEntries)
    /\ pc' = "loop"
    /\ UNCHANGED <<i, catalog, counters, dstFile, backupFile>>

\* Lines 196-197: open() or json.load() raises.
ReadFails ==
    /\ pc = "start"
    /\ pc' = "failed"
    /\ UNCHANGED <<raw, i, catalog, counters, dstFile, backupFile>>

\* The pair the for loop of line 203 hands out next.
InLoop == pc = "loop" /\ i < Len(raw)

Cur == raw[i + 1]

\* Line 210: v.get("litellm_provider") or ""
litellm_provider_of(v) ==
    IF TruthyStr(v.litellm_provider) THEN Val(v.litellm_provider) ELSE <<>>

\* Lines 204-213: the pair gets as far as convert_entry.
ReachesConvert(it) ==
    /\ it.key # SAMPLE_SPEC
    /\ it.is_dict
    /\ litellm_provider_of(it.v) # <<>>

\* Lines 215-216
provider_of(it) == canonical_provider(litellm_provider_of(it.v))

entry_of(it) == convert_entry(it.key, it.v, provider_of(it))

\* Mutant: the "/" is forgotten.
catalog_key_NoSlash(provider, entry) == provider \o entry.model_id

\* Line 221
catalog_key(provider, entry) == provider \o Slash \o entry.model_id

\* catalog[k] = e
Store(c, k, e) ==
    [x \in (DOMAIN c) \cup {k} |-> IF x = k THEN e ELSE c[x]]

\* Lines 204-206
LoopSkipSpec ==
    /\ InLoop
    /\ Cur.key = SAMPLE_SPEC
    /\ counters' = [counters EXCEPT !.skipped_spec = @ + 1]
    /\ i' = i + 1
    /\ UNCHANGED <<raw, catalog, pc, dstFile, backupFile>>

\* Lines 207-208
LoopSkipNonDict ==
    /\ InLoop
    /\ Cur.key # SAMPLE_SPEC
    /\ ~Cur.is_dict
    /\ i' = i + 1
    /\ UNCHANGED <<raw, catalog, counters, pc, dstFile, backupFile>>

\* Mutant: a missing provider is counted as an unsupported mode.
LoopSkipNoProvider_CountsMode ==
    /\ InLoop
    /\ Cur.key # SAMPLE_SPEC
    /\ Cur.is_dict
    /\ litellm_provider_of(Cur.v) = <<>>
    /\ counters' = [counters EXCEPT !.skipped_mode = @ + 1]
    /\ i' = i + 1
    /\ UNCHANGED <<raw, catalog, pc, dstFile, backupFile>>

\* Lines 210-213
LoopSkipNoProvider ==
    /\ InLoop
    /\ Cur.key # SAMPLE_SPEC
    /\ Cur.is_dict
    /\ litellm_provider_of(Cur.v) = <<>>
    /\ counters' = [counters EXCEPT !.skipped_no_provider = @ + 1]
    /\ i' = i + 1
    /\ UNCHANGED <<raw, catalog, pc, dstFile, backupFile>>

\* Lines 215-219
LoopSkipMode ==
    /\ InLoop
    /\ ReachesConvert(Cur)
    /\ ~convert_raises(Cur.v)
    /\ IsNone(entry_of(Cur))
    /\ counters' = [counters EXCEPT !.skipped_mode = @ + 1]
    /\ i' = i + 1
    /\ UNCHANGED <<raw, catalog, pc, dstFile, backupFile>>

\* Line 216: convert_entry raises and nothing catches it.
LoopRaise ==
    /\ InLoop
    /\ ReachesConvert(Cur)
    /\ convert_raises(Cur.v)
    /\ pc' = "failed"
    /\ UNCHANGED <<raw, i, catalog, counters, dstFile, backupFile>>

\* Lines 221-222, 226-228: the key is new.
LoopInsert ==
    /\ InLoop
    /\ ReachesConvert(Cur)
    /\ ~convert_raises(Cur.v)
    /\ ~IsNone(entry_of(Cur))
    /\ LET entry == Val(entry_of(Cur))
           key == catalog_key(provider_of(Cur), entry)
       IN  /\ key \notin DOMAIN catalog
           /\ catalog' = Store(catalog, key, entry)
           /\ counters' = [counters EXCEPT !.written = @ + 1]
    /\ i' = i + 1
    /\ UNCHANGED <<raw, pc, dstFile, backupFile>>

\* Mutant: a priced duplicate replaces the stored entry even if that one is
\* priced too.
LoopDuplicate_PricedReplaces ==
    /\ InLoop
    /\ ReachesConvert(Cur)
    /\ ~convert_raises(Cur.v)
    /\ ~IsNone(entry_of(Cur))
    /\ LET entry == Val(entry_of(Cur))
           key == catalog_key(provider_of(Cur), entry)
       IN  /\ key \in DOMAIN catalog
           /\ counters' = [counters EXCEPT !.duplicates = @ + 1]
           /\ catalog' = IF has_pricing(entry)
                         THEN Store(catalog, key, entry)
                         ELSE catalog
    /\ i' = i + 1
    /\ UNCHANGED <<raw, pc, dstFile, backupFile>>

\* Mutant: a duplicate never replaces the stored entry.
LoopDuplicate_FirstWins ==
    /\ InLoop
    /\ ReachesConvert(Cur)
    /\ ~convert_raises(Cur.v)
    /\ ~IsNone(entry_of(Cur))
    /\ LET entry == Val(entry_of(Cur))
           key == catalog_key(provider_of(Cur), entry)
       IN  /\ key \in DOMAIN catalog
           /\ counters' = [counters EXCEPT !.duplicates = @ + 1]
           /\ catalog' = catalog
    /\ i' = i + 1
    /\ UNCHANGED <<raw, pc, dstFile, backupFile>>

\* Lines 221-225: the key is already in the catalog.
LoopDuplicate ==
    /\ InLoop
    /\ ReachesConvert(Cur)
    /\ ~convert_raises(Cur.v)
    /\ ~IsNone(entry_of(Cur))
    /\ LET entry == Val(entry_of(Cur))
           key == catalog_key(provider_of(Cur), entry)
       IN  /\ key \in DOMAIN catalog
           /\ counters' = [counters EXCEPT !.duplicates = @ + 1]
           /\ catalog' = IF has_pricing(entry) /\ ~has_pricing(catalog[key])
                         THEN Store(catalog, key, entry)
                         ELSE catalog
    /\ i' = i + 1
    /\ UNCHANGED <<raw, pc, dstFile, backupFile>>

\* Lines 230-236: the loop is over, the summary is printed.
LoopEnd ==
    /\ pc = "loop"
    /\ i = Len(raw)
    /\ pc' = "write"
    /\ UNCHANGED <<raw, i, catalog, counters, dstFile, backupFile>>

\* Lines 238-240
WriteCatalog ==
    /\ pc = "write"
    /\ dstFile' = Complete(catalog)
    /\ pc' = "copy"
    /\ UNCHANGED <<raw, i, catalog, counters, backupFile>>

\* Lines 238-240: open(dst, "w") raises and the file is as it was, or the
\* file is truncated and a write raises before the dump is complete.
WriteFails ==
    /\ pc = "write"
    /\ dstFile' \in {dstFile, Partial}
    /\ pc' = "failed"
    /\ UNCHANGED <<raw, i, catalog, counters, backupFile>>

\* Line 242
CopyBackup ==
    /\ pc = "copy"
    /\ backupFile' = dstFile
    /\ pc' = "done"
    /\ UNCHANGED <<raw, i, catalog, counters, dstFile>>

\* Line 242: shutil.copy2 raises before it opens the backup, while it copies
\* the content, or while it copies the metadata after the content.
CopyFails ==
    /\ pc = "copy"
    /\ backupFile' \in {backupFile, Partial, dstFile}
    /\ pc' = "failed"
    /\ UNCHANGED <<raw, i, catalog, counters, dstFile>>

Next ==
    \/ ReadSource
    \/ ReadFails
    \/ LoopSkipSpec
    \/ LoopSkipNonDict
    \/ LoopSkipNoProvider
    \/ LoopSkipMode
    \/ LoopRaise
    \/ LoopInsert
    \/ LoopDuplicate
    \/ LoopEnd
    \/ WriteCatalog
    \/ WriteFails
    \/ CopyBackup
    \/ CopyFails

Spec == Init /\ [][Next]_vars

(* convert_entry on its own: one-pair mappings over the whole grid of cost   *)
(* fields, so that every combination of present and missing costs is tried. *)

CostFields ==
    {"input_cost_per_token", "output_cost_per_token",
     "cache_read_input_token_cost", "cache_creation_input_token_cost",
     "input_cost_per_reasoning_token", "output_cost_per_image",
     "input_cost_per_second", "input_cost_per_audio_per_second",
     "output_cost_per_character",
     "ft_input_cost_per_token", "ft_output_cost_per_token"}

\* 1.23456e-16 per token: its rate per million has more than ten decimals.
FineCost == Dec(123456, -21)

\* 1.5e-7 per token
TypicalCost == Dec(15, -8)

ConvCosts == {Zero, FineCost, TypicalCost}

ConvModes == {None, Some("embedding"), Some("rerank")}

ConvFlags == {None, Some(TRUE), Some(FALSE)}

\* The attribute mapping whose cost fields in `present` are all c.
MakeV(present, c, mode, flag) ==
    [f \in DOMAIN EmptyV |->
        IF f \in present THEN Some(c)
        ELSE IF f = "mode" THEN mode
        ELSE IF f = "supports_reasoning" THEN flag
        ELSE IF f = "litellm_provider" THEN chatgpt
        ELSE EmptyV[f]]

ConvValues ==
    { MakeV(present, c, mode, flag) :
        present \in SUBSET CostFields, c \in ConvCosts,
        mode \in ConvModes, flag \in ConvFlags }

\* main after it has read a mapping of one pair.
InitConv ==
    /\ raw \in {<<Item(kChatgptFoo, v)>> : v \in ConvValues}
    /\ i = 0
    /\ catalog = EmptyCatalog
    /\ counters = ZeroCounters
    /\ pc = "loop"
    /\ dstFile = Untouched
    /\ backupFile = Untouched

NextConv ==
    \/ LoopSkipMode
    \/ LoopInsert

SpecConv == InitConv /\ [][NextConv]_vars

(* Properties *)

\* The pair is converted and stored or counted as a duplicate.
Accepted(it) == ReachesConvert(it) /\ ~mode_skipped(it.v)

ConvertedAt(j) == Val(entry_of(raw[j]))

KeyAt(j) == catalog_key(provider_of(raw[j]), ConvertedAt(j))

AcceptedUpTo(n) == {j \in 1..n : Accepted(raw[j])}

PassComplete == pc \in {"write", "copy", "done"}

Least(S) == CHOOSE x \in S : \A y \in S : x <= y

AnyPriceField(entry) ==
    \E f \in DOMAIN entry.pricing : ~IsNone(entry.pricing[f])

\* C1, as stated: once a key holds an entry with any non-null field in its
\* pricing record, no later step of the run replaces that entry.
C1_AnyPriceFieldIsKept ==
    [][\A k \in DOMAIN catalog :
          AnyPriceField(catalog[k])
              => (k \in DOMAIN catalog' /\ catalog'[k] = catalog[k])]_vars

\* C1, as amended: once a key holds an entry that has_pricing accepts (one of
\* the input, output, embedding, image, audio-input and audio-output rates is
\* non-null), no later step of the run replaces that entry, whether the later
\* entry has prices or not.
C1_PricedEntryIsKept ==
    [][\A k \in DOMAIN catalog :
          has_pricing(catalog[k])
              => (k \in DOMAIN catalog' /\ catalog'[k] = catalog[k])]_vars

\* A priced entry met a later, different, priced entry for its key and stayed.
C1_Witness ==
    /\ pc = "loop"
    /\ i >= 2
    /\ Accepted(raw[i])
    /\ has_pricing(ConvertedAt(i))
    /\ \E j \in AcceptedUpTo(i - 1) :
          /\ KeyAt(j) = KeyAt(i)
          /\ has_pricing(ConvertedAt(j))
          /\ ConvertedAt(j) # ConvertedAt(i)
          /\ catalog[KeyAt(i)] = ConvertedAt(j)

\* The source entry whose conversion a key must hold after the pass.
Winner(k) ==
    LET same == {j \in AcceptedUpTo(Len(raw)) : KeyAt(j) = k}
        priced == {j \in same : has_pricing(ConvertedAt(j))}
    IN  IF priced # {} THEN Least(priced) ELSE Least(same)

\* Two pairs, one key, the first unpriced, the second with input_cost_per_token.
C2_Scenario ==
    /\ Len(raw) = 2
    /\ Accepted(raw[1]) /\ Accepted(raw[2])
    /\ KeyAt(1) = KeyAt(2)
    /\ ~has_pricing(ConvertedAt(1))
    /\ ~IsNone(raw[2].v.input_cost_per_token)

\* C2: after a complete pass every key holds the conversion of the first
\* accepted source entry for that key that has pricing, or of the first
\* accepted one when none has; in the two-entry scenario the stored entry is
\* the second one and the duplicates counter is 1.
C2_FirstPricedWins ==
    PassComplete =>
        /\ DOMAIN catalog = {KeyAt(j) : j \in AcceptedUpTo(Len(raw))}
        /\ \A k \in DOMAIN catalog : catalog[k] = ConvertedAt(Winner(k))
        /\ C2_Scenario =>
              /\ catalog[KeyAt(2)] = ConvertedAt(2)
              /\ catalog[KeyAt(2)] # ConvertedAt(1)
              /\ counters.duplicates = 1

C2_Witness == PassComplete /\ C2_Scenario

\* C3: in every state each catalog key is provider + "/" + model_id of the
\* entry stored under it, that entry's provider and model id are
\* canonical_provider and derive_model_id of an accepted source entry, and
\* every accepted entry either created a key or went through the duplicate
\* branch: written counts the keys, written + duplicates the accepted entries.
C3_KeyIsProviderSlashModel ==
    /\ \A k \in DOMAIN catalog :
          /\ k = catalog[k].provider \o <<"/">> \o catalog[k].model_id
          /\ \E j \in AcceptedUpTo(i) :
                LET tag == Val(raw[j].v.litellm_provider) IN
                /\ catalog[k].provider = canonical_provider(tag)
                /\ catalog[k].model_id = derive_model_id(raw[j].key, tag)
    /\ counters.written = Cardinality(DOMAIN catalog)
    /\ counters.written + counters.duplicates = Cardinality(AcceptedUpTo(i))

\* A duplicate has just replaced the entry stored under its key.
C3_Witness ==
    /\ pc = "loop"
    /\ i >= 2
    /\ Accepted(raw[i])
    /\ catalog[KeyAt(i)] = ConvertedAt(i)
    /\ \E j \in AcceptedUpTo(i - 1) :
          KeyAt(j) = KeyAt(i) /\ ConvertedAt(j) # ConvertedAt(i)

\* The mapping {"gpt-4/foo": {litellm_provider: openai, mode: chat,
\* input_cost_per_token: 0.00003}}.
C4_Input == raw = <<Item(kGpt4Foo, vChatPriced)>>

C4_Rest(k) ==
    /\ catalog[k].pricing.input_per_m_tokens = Some(Dec(30, 0))
    /\ catalog[k].capabilities.streaming = TRUE

\* C4, as stated: that mapping gives the single key "openai/foo", with
\* input_per_m_tokens 30 and streaming true.
C4_KeyOpenaiFoo ==
    (PassComplete /\ C4_Input) =>
        /\ DOMAIN catalog = {<<"openai", "/", "foo">>}
        /\ C4_Rest(<<"openai", "/", "foo">>)

\* C4, as amended: that mapping gives the single key "openai/gpt-4/foo" (the
\* key does not start with the provider, so nothing is stripped), with
\* input_per_m_tokens 30 and streaming true.
C4_KeyOpenaiGpt4Foo ==
    (PassComplete /\ C4_Input) =>
        /\ DOMAIN catalog = {<<"openai", "/", "gpt-4", "/", "foo">>}
        /\ C4_Rest(<<"openai", "/", "gpt-4", "/", "foo">>)

C4_Witness == pc = "done" /\ C4_Input /\ DOMAIN catalog # {}

\* The pair about to be processed is a record with a mode of the skip set.
SkipModeNext ==
    /\ InLoop
    /\ Cur.is_dict
    /\ ~IsNone(Cur.v.mode)
    /\ Val(Cur.v.mode) \in {"moderation", "rerank", "search"}

SkipModeEffect ==
    /\ catalog' = catalog
    /\ counters'.skipped_mode = counters.skipped_mode + 1

\* C5, as stated: processing any source entry whose mode is in the skip set
\* leaves the catalog as it is and adds one to skipped_mode.
C5_EverySkipModeCounted == [][SkipModeNext => SkipModeEffect]_vars

\* C5, as amended: processing a source entry whose mode is in the skip set,
\* whose key is not "sample_spec" and whose provider tag is not empty leaves
\* the catalog as it is and adds one to skipped_mode.
C5_SkipModeCounted ==
    [][(SkipModeNext /\ ReachesConvert(Cur)) => SkipModeEffect]_vars

\* Such an entry has just been processed.
C5_Witness ==
    /\ pc = "loop"
    /\ i >= 1
    /\ ReachesConvert(raw[i])
    /\ mode_skipped(raw[i].v)
    /\ counters.skipped_mode >= 1
    /\ i < Len(raw)

\* The embedding pricing shape and the general one exclude each other.
EmbeddingSplit(e) ==
    /\ e.mode = "embedding" =>
          \A f \in (DOMAIN e.pricing) \ {"embedding_per_m_tokens"} :
              IsNone(e.pricing[f])
    /\ e.mode # "embedding" => IsNone(e.pricing.embedding_per_m_tokens)

\* C6: every entry convert_entry produces and every entry stored in the
\* catalog has, when its mode is embedding, no pricing field but
\* embedding_per_m_tokens and, when its mode is not embedding, no
\* embedding_per_m_tokens, whatever cost fields the source entry has.
C6_EmbeddingPricingIsSplit ==
    /\ \A j \in 1..Len(raw) : Accepted(raw[j]) => EmbeddingSplit(ConvertedAt(j))
    /\ \A k \in DOMAIN catalog : EmbeddingSplit(catalog[k])

\* An embedding entry is stored whose source also had output, cache and
\* fine-tune costs.
C6_Witness ==
    /\ i = 1
    /\ \E k \in DOMAIN catalog :
          /\ catalog[k].mode = "embedding"
          /\ ~IsNone(catalog[k].pricing.embedding_per_m_tokens)
    /\ ~IsNone(raw[1].v.output_cost_per_token)
    /\ ~IsNone(raw[1].v.cache_read_input_token_cost)
    /\ ~IsNone(raw[1].v.ft_input_cost_per_token)

\* <<rate field, source cost field>> of the per-token rates.
TokenRates ==
    { <<"input_per_m_tokens", "input_cost_per_token">>,
      <<"output_per_m_tokens", "output_cost_per_token">>,
      <<"cache_read_per_m_tokens", "cache_read_input_token_cost">>,
      <<"cache_write_per_m_tokens", "cache_creation_input_token_cost">>,
      <<"reasoning_per_m_tokens", "input_cost_per_reasoning_token">>,
      <<"finetune_train_per_m_tokens", "ft_input_cost_per_token">>,
      <<"finetune_input_per_m_tokens", "ft_input_cost_per_token">>,
      <<"finetune_output_per_m_tokens", "ft_output_cost_per_token">> }

\* c * 1,000,000
TimesMillion(c) == DecMul(c, 1000 * 1000)

\* c * 1,000,000 to ten decimals
TimesMillionRounded(c) == DecRound(TimesMillion(c), 10)

\* The only entry of a one-pair mapping, once stored, and its source.
StoredFromFirst(k) == i = 1 /\ k \in DOMAIN catalog

\* C7, as stated: a rate is absent exactly when its source cost is absent,
\* and a present cost c gives the rate c * 1,000,000.
C7_RateIsCostTimesMillion ==
    \A k \in DOMAIN catalog :
        StoredFromFirst(k) =>
            LET e == catalog[k]
                v == raw[1].v
            IN  /\ e.mode # "embedding" =>
                      \A p \in TokenRates :
                          /\ IsNone(e.pricing[p[1]]) <=> IsNone(v[p[2]])
                          /\ ~IsNone(v[p[2]]) =>
                                e.pricing[p[1]] = Some(TimesMillion(Val(v[p[2]])))
                /\ e.mode = "embedding" =>
                      /\ IsNone(e.pricing.embedding_per_m_tokens)
                            <=> IsNone(v.input_cost_per_token)
                      /\ ~IsNone(v.input_cost_per_token) =>
                            e.pricing.embedding_per_m_tokens
                                = Some(TimesMillion(Val(v.input_cost_per_token)))

\* C7, as amended: a rate is absent exactly when its source cost is absent
\* (a cost of zero gives the rate zero), and a present cost c gives the rate
\* c * 1,000,000 rounded to ten decimals, so a cost with more than sixteen
\* decimals does not give exactly c * 1,000,000.
C7_RateIsCostTimesMillionRounded ==
    \A k \in DOMAIN catalog :
        StoredFromFirst(k) =>
            LET e == catalog[k]
                v == raw[1].v
            IN  /\ e.mode # "embedding" =>
                      \A p \in TokenRates :
                          /\ IsNone(e.pricing[p[1]]) <=> IsNone(v[p[2]])
                          /\ ~IsNone(v[p[2]]) =>
                                e.pricing[p[1]]
                                    = Some(TimesMillionRounded(Val(v[p[2]])))
                /\ e.mode = "embedding" =>
                      /\ IsNone(e.pricing.embedding_per_m_tokens)
                            <=> IsNone(v.input_cost_per_token)
                      /\ ~IsNone(v.input_cost_per_token) =>
                            e.pricing.embedding_per_m_tokens
                                = Some(TimesMillionRounded(Val(v.input_cost_per_token)))

\* A stored entry whose source had some costs of zero and lacked others.
C7_Witness ==
    \E k \in DOMAIN catalog :
        /\ StoredFromFirst(k)
        /\ catalog[k].mode # "embedding"
        /\ raw[1].v.input_cost_per_token = Some(Zero)
        /\ catalog[k].pricing.input_per_m_tokens = Some(Zero)
        /\ IsNone(raw[1].v.output_cost_per_token)
        /\ IsNone(catalog[k].pricing.output_per_m_tokens)

\* C8: capabilities.reasoning is true if supports_reasoning is true or
\* input_cost_per_reasoning_token is non-null (zero included), and false
\* when neither holds.
C8_ReasoningFromFlagOrPrice ==
    \A k \in DOMAIN catalog :
        StoredFromFirst(k) =>
            catalog[k].capabilities.reasoning
                = (\/ raw[1].v.supports_reasoning = Some(TRUE)
                   \/ ~IsNone(raw[1].v.input_cost_per_reasoning_token))

\* C9: no output file is touched before the pass is over, and when the run
\* has ended either both files hold the complete catalog or neither was
\* written or modified.
C9_NoPartialOutput ==
    /\ pc \in {"start", "loop", "write"} =>
          dstFile = Untouched /\ backupFile = Untouched
    /\ pc \in {"done", "failed"} =>
          \/ dstFile = Complete(catalog) /\ backupFile = Complete(catalog)
          \/ dstFile = Untouched /\ backupFile = Untouched

\* Exactly the counter c goes up by one.
OnlyCounter(c) == counters' = [counters EXCEPT ![c] = @ + 1]

RejectedNext ==
    /\ InLoop
    /\ \/ Cur.key = SAMPLE_SPEC
       \/ ~Cur.is_dict
       \/ litellm_provider_of(Cur.v) = <<>>
       \/ mode_skipped(Cur.v)

Continues == catalog' = catalog /\ i' = i + 1 /\ pc' = "loop"

\* C10, as stated: processing a rejected entry adds one to exactly one
\* counter and to no other, leaves the catalog as it is, and the run goes on.
C10_EveryRejectionCounted ==
    [][RejectedNext =>
          (Continues /\ \E c \in {"skipped_spec", "skipped_no_provider",
                                  "skipped_mode"} : OnlyCounter(c))]_vars

\* C10, as amended: a rejected entry is one with the key "sample_spec", a
\* value that is not a record, an empty or missing provider tag or an
\* unsupported mode, tested in that order.  Processing it leaves the catalog
\* as it is and the run goes on; the sentinel key, the missing provider and
\* the unsupported mode each add one to their own counter and to no other,
\* and a value that is not a record changes no counter at all.  Every other
\* entry is written or counted as a duplicate.
C10_RejectionsCountedButNonRecords ==
    [][(InLoop /\ i' = i + 1) =>
          IF Cur.key = SAMPLE_SPEC
              THEN Continues /\ OnlyCounter("skipped_spec")
          ELSE IF ~Cur.is_dict
              THEN Continues /\ counters' = counters
          ELSE IF litellm_provider_of(Cur.v) = <<>>
              THEN Continues /\ OnlyCounter("skipped_no_provider")
          ELSE IF mode_skipped(Cur.v)
              THEN Continues /\ OnlyCounter("skipped_mode")
          ELSE OnlyCounter("written") \/ OnlyCounter("duplicates")]_vars

\* A value that is not a record has just been passed over, after the
\* sentinel key and another counted rejection.
C10_Witness ==
    /\ pc = "loop"
    /\ i = 3
    /\ raw[i].key # SAMPLE_SPEC
    /\ ~raw[i].is_dict
    /\ counters.skipped_spec = 1
    /\ counters.skipped_no_provider + counters.skipped_mode = 1

====
